---- MODULE Spec2Model ----
(***************************************************************************)
(* Model of the EightSegment driver (src/src/lib.rs): eight output pins    *)
(* and a polarity flag, driven by blank, set_segments and display.         *)
(* Each pin is a recording output line: it keeps the last PinState written *)
(* to it, and the sequence of set_state calls of the last driver call is   *)
(* kept in writes.                                                         *)
(***************************************************************************)
EXTENDS Integers, Sequences, FiniteSets, TLC

VARIABLES high_on, seg, writes, call

vars == <<high_on, seg, writes, call>>

\* The eight pin fields of the struct, in declaration order.
SegOrder == <<"seg_a", "seg_b", "seg_c", "seg_d", "seg_e", "seg_f", "seg_g", "seg_p">>

Segs == {SegOrder[i] : i \in 1..8}

SevenSegs == {SegOrder[i] : i \in 1..7}

\* embedded_hal::digital::v2::PinState
PinStates == {"High", "Low"}

\* u8
U8 == 0..255

\* PinState::from(bool): true is High, false is Low.
PinState_from(value) == IF value THEN "High" ELSE "Low"

\* bool ^ bool
Xor(x, y) == x # y

\* OutputPin::set_state on the pin field `pin` of the driver s; the pin
\* records the state and the call is appended to the write log.
set_state_dirty(s, pin, state) ==
  IF s.seg[pin] = state
    THEN s
    ELSE [s EXCEPT !.seg[pin] = state,
                   !.writes = Append(@, [pin |-> pin, state |-> state])]

set_state(s, pin, state) ==
  [s EXCEPT !.seg[pin] = state,
            !.writes = Append(@, [pin |-> pin, state |-> state])]

\* EightSegment::blank
blank_flip(s) ==
  LET s1 == set_state(s,  "seg_a", PinState_from(s.high_on))
      s2 == set_state(s1, "seg_b", PinState_from(s.high_on))
      s3 == set_state(s2, "seg_c", PinState_from(s.high_on))
      s4 == set_state(s3, "seg_d", PinState_from(s.high_on))
      s5 == set_state(s4, "seg_e", PinState_from(s.high_on))
      s6 == set_state(s5, "seg_f", PinState_from(s.high_on))
      s7 == set_state(s6, "seg_g", PinState_from(s.high_on))
      s8 == set_state(s7, "seg_p", PinState_from(s.high_on))
  IN  [s8 EXCEPT !.high_on = ~ @]

blank(s) ==
  LET s1 == set_state(s,  "seg_a", PinState_from(s.high_on))
      s2 == set_state(s1, "seg_b", PinState_from(s1.high_on))
      s3 == set_state(s2, "seg_c", PinState_from(s2.high_on))
      s4 == set_state(s3, "seg_d", PinState_from(s3.high_on))
      s5 == set_state(s4, "seg_e", PinState_from(s4.high_on))
      s6 == set_state(s5, "seg_f", PinState_from(s5.high_on))
      s7 == set_state(s6, "seg_g", PinState_from(s6.high_on))
      s8 == set_state(s7, "seg_p", PinState_from(s7.high_on))
  IN  s8

\* EightSegment::set_segments
set_segments_coupled(s, seg_a_on, seg_b_on, seg_c_on, seg_d_on, seg_e_on, seg_f_on, seg_g_on, seg_p_on) ==
  LET s1 == set_state(s,  "seg_a", PinState_from(Xor(seg_a_on, ~ s.high_on)))
      s2 == set_state(s1, "seg_b", PinState_from(Xor(seg_a_on, ~ s1.high_on)))
      s3 == set_state(s2, "seg_c", PinState_from(Xor(seg_c_on, ~ s2.high_on)))
      s4 == set_state(s3, "seg_d", PinState_from(Xor(seg_d_on, ~ s3.high_on)))
      s5 == set_state(s4, "seg_e", PinState_from(Xor(seg_e_on, ~ s4.high_on)))
      s6 == set_state(s5, "seg_f", PinState_from(Xor(seg_f_on, ~ s5.high_on)))
      s7 == set_state(s6, "seg_g", PinState_from(Xor(seg_g_on, ~ s6.high_on)))
      s8 == set_state(s7, "seg_p", PinState_from(Xor(seg_p_on, ~ s7.high_on)))
  IN  s8

set_segments_nopolarity(s, seg_a_on, seg_b_on, seg_c_on, seg_d_on, seg_e_on, seg_f_on, seg_g_on, seg_p_on) ==
  LET s1 == set_state(s,  "seg_a", PinState_from(seg_a_on))
      s2 == set_state(s1, "seg_b", PinState_from(seg_b_on))
      s3 == set_state(s2, "seg_c", PinState_from(seg_c_on))
      s4 == set_state(s3, "seg_d", PinState_from(seg_d_on))
      s5 == set_state(s4, "seg_e", PinState_from(seg_e_on))
      s6 == set_state(s5, "seg_f", PinState_from(seg_f_on))
      s7 == set_state(s6, "seg_g", PinState_from(seg_g_on))
      s8 == set_state(s7, "seg_p", PinState_from(seg_p_on))
  IN  s8

set_segments_keep_p(s, seg_a_on, seg_b_on, seg_c_on, seg_d_on, seg_e_on, seg_f_on, seg_g_on, seg_p_on) ==
  LET s1 == set_state(s,  "seg_a", PinState_from(Xor(seg_a_on, ~ s.high_on)))
      s2 == set_state(s1, "seg_b", PinState_from(Xor(seg_b_on, ~ s1.high_on)))
      s3 == set_state(s2, "seg_c", PinState_from(Xor(seg_c_on, ~ s2.high_on)))
      s4 == set_state(s3, "seg_d", PinState_from(Xor(seg_d_on, ~ s3.high_on)))
      s5 == set_state(s4, "seg_e", PinState_from(Xor(seg_e_on, ~ s4.high_on)))
      s6 == set_state(s5, "seg_f", PinState_from(Xor(seg_f_on, ~ s5.high_on)))
      s7 == set_state(s6, "seg_g", PinState_from(Xor(seg_g_on, ~ s6.high_on)))
      s8 == IF seg_p_on
              THEN set_state(s7, "seg_p", PinState_from(Xor(seg_p_on, ~ s7.high_on)))
              ELSE set_state(s7, "seg_p", s7.seg["seg_p"])
  IN  s8

set_segments(s, seg_a_on, seg_b_on, seg_c_on, seg_d_on, seg_e_on, seg_f_on, seg_g_on, seg_p_on) ==
  LET s1 == set_state(s,  "seg_a", PinState_from(Xor(seg_a_on, ~ s.high_on)))
      s2 == set_state(s1, "seg_b", PinState_from(Xor(seg_b_on, ~ s1.high_on)))
      s3 == set_state(s2, "seg_c", PinState_from(Xor(seg_c_on, ~ s2.high_on)))
      s4 == set_state(s3, "seg_d", PinState_from(Xor(seg_d_on, ~ s3.high_on)))
      s5 == set_state(s4, "seg_e", PinState_from(Xor(seg_e_on, ~ s4.high_on)))
      s6 == set_state(s5, "seg_f", PinState_from(Xor(seg_f_on, ~ s5.high_on)))
      s7 == set_state(s6, "seg_g", PinState_from(Xor(seg_g_on, ~ s6.high_on)))
      s8 == set_state(s7, "seg_p", PinState_from(Xor(seg_p_on, ~ s7.high_on)))
  IN  s8

\* The `match count` of EightSegment::display.  The tuple is in the order of
\* the source's destructuring pattern:
\*   (seg_a_on, seg_f_on, seg_b_on, seg_g_on, seg_e_on, seg_c_on, seg_d_on)
match_count_blank_fallback(count) ==
  CASE count = 0  -> <<TRUE,  TRUE,  TRUE,  FALSE, TRUE,  TRUE,  TRUE >>
    [] count = 1  -> <<FALSE, FALSE, TRUE,  FALSE, FALSE, TRUE,  FALSE>>
    [] count = 2  -> <<TRUE,  FALSE, TRUE,  TRUE,  TRUE,  FALSE, TRUE >>
    [] count = 3  -> <<TRUE,  FALSE, TRUE,  TRUE,  FALSE, TRUE,  TRUE >>
    [] count = 4  -> <<FALSE, TRUE,  TRUE,  TRUE,  FALSE, TRUE,  FALSE>>
    [] count = 5  -> <<TRUE,  TRUE,  FALSE, TRUE,  FALSE, TRUE,  TRUE >>
    [] count = 6  -> <<TRUE,  TRUE,  FALSE, TRUE,  TRUE,  TRUE,  TRUE >>
    [] count = 7  -> <<TRUE,  FALSE, TRUE,  FALSE, FALSE, TRUE,  FALSE>>
    [] count = 8  -> <<TRUE,  TRUE,  TRUE,  TRUE,  TRUE,  TRUE,  TRUE >>
    [] count = 9  -> <<TRUE,  TRUE,  TRUE,  TRUE,  FALSE, TRUE,  FALSE>>
    [] count = 10 -> <<TRUE,  TRUE,  TRUE,  FALSE, TRUE,  TRUE,  FALSE>>
    [] count = 11 -> <<FALSE, TRUE,  FALSE, TRUE,  TRUE,  TRUE,  TRUE >>
    [] count = 12 -> <<FALSE, FALSE, FALSE, TRUE,  TRUE,  FALSE, TRUE >>
    [] count = 13 -> <<FALSE, FALSE, TRUE,  TRUE,  TRUE,  TRUE,  TRUE >>
    [] count = 14 -> <<TRUE,  TRUE,  FALSE, TRUE,  TRUE,  FALSE, TRUE >>
    [] count = 15 -> <<TRUE,  TRUE,  FALSE, TRUE,  TRUE,  FALSE, FALSE>>
    [] OTHER      -> <<FALSE, FALSE, FALSE, FALSE, FALSE, FALSE, FALSE>>

match_count_a_as_zero(count) ==
  CASE count = 0  -> <<TRUE,  TRUE,  TRUE,  FALSE, TRUE,  TRUE,  TRUE >>
    [] count = 1  -> <<FALSE, FALSE, TRUE,  FALSE, FALSE, TRUE,  FALSE>>
    [] count = 2  -> <<TRUE,  FALSE, TRUE,  TRUE,  TRUE,  FALSE, TRUE >>
    [] count = 3  -> <<TRUE,  FALSE, TRUE,  TRUE,  FALSE, TRUE,  TRUE >>
    [] count = 4  -> <<FALSE, TRUE,  TRUE,  TRUE,  FALSE, TRUE,  FALSE>>
    [] count = 5  -> <<TRUE,  TRUE,  FALSE, TRUE,  FALSE, TRUE,  TRUE >>
    [] count = 6  -> <<TRUE,  TRUE,  FALSE, TRUE,  TRUE,  TRUE,  TRUE >>
    [] count = 7  -> <<TRUE,  FALSE, TRUE,  FALSE, FALSE, TRUE,  FALSE>>
    [] count = 8  -> <<TRUE,  TRUE,  TRUE,  TRUE,  TRUE,  TRUE,  TRUE >>
    [] count = 9  -> <<TRUE,  TRUE,  TRUE,  TRUE,  FALSE, TRUE,  FALSE>>
    [] count = 10 -> <<TRUE,  TRUE,  TRUE,  FALSE, TRUE,  TRUE,  TRUE >>
    [] count = 11 -> <<FALSE, TRUE,  FALSE, TRUE,  TRUE,  TRUE,  TRUE >>
    [] count = 12 -> <<FALSE, FALSE, FALSE, TRUE,  TRUE,  FALSE, TRUE >>
    [] count = 13 -> <<FALSE, FALSE, TRUE,  TRUE,  TRUE,  TRUE,  TRUE >>
    [] count = 14 -> <<TRUE,  TRUE,  FALSE, TRUE,  TRUE,  FALSE, TRUE >>
    [] count = 15 -> <<TRUE,  TRUE,  FALSE, TRUE,  TRUE,  FALSE, FALSE>>
    [] OTHER      -> <<TRUE,  TRUE,  TRUE,  TRUE,  TRUE,  TRUE,  TRUE >>

match_count(count) ==
  CASE count = 0  -> <<TRUE,  TRUE,  TRUE,  FALSE, TRUE,  TRUE,  TRUE >>
    [] count = 1  -> <<FALSE, FALSE, TRUE,  FALSE, FALSE, TRUE,  FALSE>>
    [] count = 2  -> <<TRUE,  FALSE, TRUE,  TRUE,  TRUE,  FALSE, TRUE >>
    [] count = 3  -> <<TRUE,  FALSE, TRUE,  TRUE,  FALSE, TRUE,  TRUE >>
    [] count = 4  -> <<FALSE, TRUE,  TRUE,  TRUE,  FALSE, TRUE,  FALSE>>
    [] count = 5  -> <<TRUE,  TRUE,  FALSE, TRUE,  FALSE, TRUE,  TRUE >>
    [] count = 6  -> <<TRUE,  TRUE,  FALSE, TRUE,  TRUE,  TRUE,  TRUE >>
    [] count = 7  -> <<TRUE,  FALSE, TRUE,  FALSE, FALSE, TRUE,  FALSE>>
    [] count = 8  -> <<TRUE,  TRUE,  TRUE,  TRUE,  TRUE,  TRUE,  TRUE >>
    [] count = 9  -> <<TRUE,  TRUE,  TRUE,  TRUE,  FALSE, TRUE,  FALSE>>
    [] count = 10 -> <<TRUE,  TRUE,  TRUE,  FALSE, TRUE,  TRUE,  FALSE>>
    [] count = 11 -> <<FALSE, TRUE,  FALSE, TRUE,  TRUE,  TRUE,  TRUE >>
    [] count = 12 -> <<FALSE, FALSE, FALSE, TRUE,  TRUE,  FALSE, TRUE >>
    [] count = 13 -> <<FALSE, FALSE, TRUE,  TRUE,  TRUE,  TRUE,  TRUE >>
    [] count = 14 -> <<TRUE,  TRUE,  FALSE, TRUE,  TRUE,  FALSE, TRUE >>
    [] count = 15 -> <<TRUE,  TRUE,  FALSE, TRUE,  TRUE,  FALSE, FALSE>>
    [] OTHER      -> <<TRUE,  TRUE,  TRUE,  TRUE,  TRUE,  TRUE,  TRUE >>

\* EightSegment::display
display(s, count, seg_p_on) ==
  LET t        == match_count(count)
      seg_a_on == t[1]
      seg_f_on == t[2]
      seg_b_on == t[3]
      seg_g_on == t[4]
      seg_e_on == t[5]
      seg_c_on == t[6]
      seg_d_on == t[7]
  IN  set_segments(s, seg_a_on, seg_b_on, seg_c_on, seg_d_on,
                   seg_e_on, seg_f_on, seg_g_on, seg_p_on)

----------------------------------------------------------------------------
\* The driver as the methods see it (&mut self), with an empty write log.
Self == [high_on |-> high_on, seg |-> seg, writes |-> <<>>]

NoLit == [i \in 1..8 |-> FALSE]

NoCall == [op |-> "none", lit |-> NoLit, count |-> 0, seg_p_on |-> FALSE]

\* The struct literal: any polarity, pins at whatever level they were left.
Init ==
  /\ high_on \in BOOLEAN
  /\ seg \in [Segs -> PinStates]
  /\ writes = <<>>
  /\ call = NoCall

Return(s, c) ==
  /\ high_on' = s.high_on
  /\ seg' = s.seg
  /\ writes' = s.writes
  /\ call' = c

Blank ==
  Return(blank(Self), [NoCall EXCEPT !.op = "blank"])

SetSegments ==
  \E lit \in [1..8 -> BOOLEAN] :
    Return(set_segments(Self, lit[1], lit[2], lit[3], lit[4],
                        lit[5], lit[6], lit[7], lit[8]),
           [NoCall EXCEPT !.op = "set_segments", !.lit = lit])

Display ==
  \E count \in U8, seg_p_on \in BOOLEAN :
    Return(display(Self, count, seg_p_on),
           [NoCall EXCEPT !.op = "display", !.count = count, !.seg_p_on = seg_p_on])

Next == Blank \/ SetSegments \/ Display

Spec == Init /\ [][Next]_vars

----------------------------------------------------------------------------
\* Vocabulary of the properties.

\* The level that energizes a segment of this driver, and the other one.
OnLevel == PinState_from(high_on)

OffLevel == PinState_from(~ high_on)

Lit(L) == seg[L] = OnLevel

\* The segments A..G that are lit.
LitSeven == {L \in SevenSegs : Lit(L)}

\* The call recorded in `call`, issued on the driver s.
Apply(s, c) ==
  CASE c.op = "blank"        -> blank(s)
    [] c.op = "set_segments" -> set_segments(s, c.lit[1], c.lit[2], c.lit[3], c.lit[4],
                                             c.lit[5], c.lit[6], c.lit[7], c.lit[8])
    [] c.op = "display"      -> display(s, c.count, c.seg_p_on)
    [] OTHER                 -> s

\* A driver of polarity h whose lines start at levels l.
Driver(h, l) == [high_on |-> h, seg |-> l, writes |-> <<>>]

AllLines == [Segs -> PinStates]

\* The decoding table of the specification, rows 0x0..0xF, segments A..G.
SpecTable ==
  [d \in 0..15 |->
    CASE d = 0  -> {"seg_a", "seg_b", "seg_c", "seg_d", "seg_e", "seg_f"}
      [] d = 1  -> {"seg_b", "seg_c"}
      [] d = 2  -> {"seg_a", "seg_b", "seg_d", "seg_e", "seg_g"}
      [] d = 3  -> {"seg_a", "seg_b", "seg_c", "seg_d", "seg_g"}
      [] d = 4  -> {"seg_b", "seg_c", "seg_f", "seg_g"}
      [] d = 5  -> {"seg_a", "seg_c", "seg_d", "seg_f", "seg_g"}
      [] d = 6  -> {"seg_a", "seg_c", "seg_d", "seg_e", "seg_f", "seg_g"}
      [] d = 7  -> {"seg_a", "seg_b", "seg_c"}
      [] d = 8  -> {"seg_a", "seg_b", "seg_c", "seg_d", "seg_e", "seg_f", "seg_g"}
      [] d = 9  -> {"seg_a", "seg_b", "seg_c", "seg_d", "seg_f", "seg_g"}
      [] d = 10 -> {"seg_a", "seg_b", "seg_c", "seg_e", "seg_f", "seg_g"}
      [] d = 11 -> {"seg_b", "seg_c", "seg_d", "seg_e", "seg_f", "seg_g"}
      [] d = 12 -> {"seg_d", "seg_e", "seg_g"}
      [] d = 13 -> {"seg_b", "seg_c", "seg_d", "seg_e", "seg_g"}
      [] d = 14 -> {"seg_a", "seg_d", "seg_e", "seg_f", "seg_g"}
      [] OTHER  -> {"seg_a", "seg_e", "seg_f", "seg_g"}]

----------------------------------------------------------------------------
\* C1: after set_segments returns, each line L is at logic-high iff
\* lit_L XOR (NOT high_on); with high_on the level is lit_L, without it the
\* level is NOT lit_L, so a line's level depends on its own flag and the
\* polarity only.
C1_SetSegmentsLevels ==
  call.op = "set_segments" =>
    \A i \in 1..8 :
      /\ (seg[SegOrder[i]] = "High") <=> Xor(call.lit[i], ~ high_on)
      /\ high_on => ((seg[SegOrder[i]] = "High") <=> call.lit[i])
      /\ ~ high_on => ((seg[SegOrder[i]] = "High") <=> ~ call.lit[i])

\* A set_segments call with a mixed pattern (A and B differ) has returned.
C1_Witness ==
  /\ call.op = "set_segments"
  /\ call.lit[1] /\ ~ call.lit[2] /\ call.lit[8]
  /\ ~ high_on

\* C2: for every digit 0x0..0xF and both decimal_point_on, display lights
\* exactly the segments A..G of the specification's table row and lights P
\* iff decimal_point_on; with high_on = false, display(0xB, false) leaves
\* A=high, B..G=low, P=high.
C2_DisplayTable ==
  (call.op = "display" /\ call.count <= 15) =>
    /\ LitSeven = SpecTable[call.count]
    /\ Lit("seg_p") <=> call.seg_p_on
    /\ (~ high_on /\ call.count = 11 /\ ~ call.seg_p_on) =>
         seg = [L \in Segs |-> IF L \in {"seg_a", "seg_p"} THEN "High" ELSE "Low"]

\* C3: after blank() returns no segment is lit: every line is at the off
\* level of the polarity (low when high_on, high when not high_on).
C3_BlankAllOff ==
  call.op = "blank" =>
    \A L \in Segs : /\ ~ Lit(L)
                    /\ seg[L] = (IF high_on THEN "Low" ELSE "High")

\* C4: blank() leaves the eight lines at the levels that
\* set_segments(false x 8) leaves them at.
C4_BlankIsSetSegmentsNone ==
  call.op = "blank" =>
    \A l \in AllLines :
      seg = set_segments(Driver(high_on, l), FALSE, FALSE, FALSE, FALSE,
                         FALSE, FALSE, FALSE, FALSE).seg

\* C5: for every digit 0x10..0xFF display returns normally and lights all of
\* A..G, with P lit iff decimal_point_on.
C5_OutOfRangeAllLit ==
  (call.op = "display" /\ call.count >= 16) =>
    /\ LitSeven = SevenSegs
    /\ Lit("seg_p") <=> call.seg_p_on
    /\ Len(writes) = 8

\* display(0xFF, true) has returned.
C5_Witness ==
  /\ call.op = "display"
  /\ call.count = 255
  /\ call.seg_p_on
  /\ LitSeven = SevenSegs

\* C6: the level display leaves on each line under one polarity is the
\* complement of the level the same display call leaves on that line under
\* the other polarity.
C6_PolaritySymmetry ==
  call.op = "display" =>
    \A l \in {seg, [L \in Segs |-> "Low"], [L \in Segs |-> "High"]} :
      \A L \in Segs :
        LET other == display(Driver(~ high_on, l), call.count, call.seg_p_on).seg[L]
        IN  /\ other # seg[L]
            /\ (other = "High") <=> (seg[L] = "Low")

\* display of a digit with lit and unlit segments has returned.
C6_Witness ==
  /\ call.op = "display"
  /\ call.count = 12
  /\ high_on
  /\ seg["seg_a"] = "Low" /\ seg["seg_d"] = "High"

\* C7: after any sequence of calls the line levels are those the last call
\* produces from any starting line state, and issuing the last call once
\* more leaves the lines as they are.
C7_HistoryIndependent ==
  call.op # "none" =>
    /\ \A l \in AllLines : Apply(Driver(high_on, l), call).seg = seg
    /\ Apply(Self, call).seg = seg

\* display(0x8, true) has returned.
C7_Witness ==
  /\ call.op = "display"
  /\ call.count = 8
  /\ call.seg_p_on
  /\ \A L \in Segs : Lit(L)

\* C8: every call issues exactly one write to each of the eight lines, in
\* the order A, B, C, D, E, F, G, P, whatever the lines' levels were.
C8_EightWritesInOrder ==
  call.op # "none" =>
    /\ Len(writes) = 8
    /\ \A i \in 1..8 : /\ writes[i].pin = SegOrder[i]
                       /\ writes[i].state = seg[SegOrder[i]]

\* A blank call has returned with its eight writes logged.
C8_Witness ==
  /\ call.op = "blank"
  /\ Len(writes) = 8
  /\ writes[8].pin = "seg_p"

\* C9: no driver operation changes high_on.
C9_PolarityImmutable == [][high_on' = high_on]_vars

\* A call has returned on an active-low driver.
C9_Witness ==
  /\ call.op = "display"
  /\ ~ high_on
  /\ seg["seg_p"] = "Low"

\* C10: two different digits of 0x0..0xF, displayed with the same decimal
\* point and polarity, differ on at least one of the lines A..G.
C10_GlyphsDistinct ==
  (call.op = "display" /\ call.count <= 15) =>
    \A d2 \in (0..15) \ {call.count} :
      \E L \in SevenSegs :
        display(Self, d2, call.seg_p_on).seg[L] # seg[L]

\* display(0xA, .) has returned.
C10_Witness ==
  /\ call.op = "display"
  /\ call.count = 10
  /\ LitSeven = {"seg_a", "seg_b", "seg_c", "seg_e", "seg_f"}

====
